---- MODULE Spec2Model ----
(***************************************************************************)
(* Bench Press Percentile Calculator (src/bench_percentile.py).            *)
(*                                                                         *)
(* The state is the CSV the archive holds (raw), the process-wide cache    *)
(* entry of load_data(), and what the last run of the script main() left:  *)
(* the widget values, the rows that survived the filter, the table that    *)
(* preprocess() returned, the rank/total/percentile of lines 161-163 and   *)
(* what the page shows.                                                    *)
(*                                                                         *)
(* Encodings.  A CSV cell of a text column is a string, "" when the cell   *)
(* is empty.  A cell of Date or Best3BenchKg is its text as a sequence of  *)
(* characters, so that parsing is computed.  A value that may be missing   *)
(* and is a number is <<n>>, or <<>> when missing.  Kilograms and years    *)
(* are integers.  The percentile is the exact fraction num/den.            *)
(***************************************************************************)
EXTENDS Integers, Sequences, FiniteSets, TLC

VARIABLES raw, cache, sel, bench_input, df_filtered, filtered_df, calc, out

vars == <<raw, cache, sel, bench_input, df_filtered, filtered_df, calc, out>>

(***************************************************************************)
(* Bounds of the model.                                                    *)
(***************************************************************************)
MaxRows == 3
MaxLoadRows == 3
MaxFilterRows == 2

(***************************************************************************)
(* Missing values.                                                         *)
(***************************************************************************)
\* NaN of an object (text) column.
NaN == "<NaN>"
\* NaN of a float column, NaT of a datetime column.
Missing == <<>>

\* The columns of numbers and dates; the others hold text.
NumberCols == {"Best3BenchKg", "Year"}

\* Whether column c of row r is missing.
isna(r, c) == IF c \in NumberCols THEN r[c] = Missing ELSE r[c] = NaN

(***************************************************************************)
(* load_data                                                               *)
(***************************************************************************)
required_cols ==
    {"Name", "Sex", "Event", "Equipment", "Country",
     "Date", "WeightClassKg", "Best3BenchKg", "Tested"}

\* The columns whose cells stay text until lines 34-35 convert them.
TextCols == {"Date", "Best3BenchKg"}

\* The subset of the schema that has no Event and no Tested filter.
dropna_subset_Older == {"Best3BenchKg", "Year", "Country", "WeightClassKg"}

\* Line 38.
dropna_subset ==
    {"Best3BenchKg", "Year", "Country", "WeightClassKg", "Event", "Tested"}

Digits == {"0", "1", "2", "3", "4", "5", "6", "7", "8", "9"}

DigitVal(c) ==
    CASE c = "0" -> 0 [] c = "1" -> 1 [] c = "2" -> 2 [] c = "3" -> 3
      [] c = "4" -> 4 [] c = "5" -> 5 [] c = "6" -> 6 [] c = "7" -> 7
      [] c = "8" -> 8 [] c = "9" -> 9

IsDigits(s) == Len(s) > 0 /\ \A i \in 1..Len(s) : s[i] \in Digits

RECURSIVE DigitsValue(_)
DigitsValue(s) ==
    IF s = <<>> THEN 0
    ELSE 10 * DigitsValue(SubSeq(s, 1, Len(s) - 1)) + DigitVal(s[Len(s)])

\* pd.read_csv(csv_path, usecols=required_cols): one record per line, an
\* empty cell of a text column read as NaN.
read_csv(csv) ==
    [i \in 1..Len(csv) |->
        [c \in required_cols |->
            IF c \in TextCols THEN csv[i][c]
            ELSE IF csv[i][c] = "" THEN NaN ELSE csv[i][c]]]

DaysInMonth(y, m) ==
    IF m \in {4, 6, 9, 11} THEN 30
    ELSE IF m # 2 THEN 31
    ELSE IF (y % 4 = 0 /\ y % 100 # 0) \/ y % 400 = 0 THEN 29 ELSE 28

\* pd.to_datetime(cell, errors='coerce').year for a YYYY-MM-DD cell: NaT for
\* an empty cell and for text that is no calendar date.
to_datetime_year(cell) ==
    IF /\ Len(cell) = 10
       /\ cell[5] = "-" /\ cell[8] = "-"
       /\ IsDigits(SubSeq(cell, 1, 4))
       /\ IsDigits(SubSeq(cell, 6, 7))
       /\ IsDigits(SubSeq(cell, 9, 10))
    THEN LET y == DigitsValue(SubSeq(cell, 1, 4))
             m == DigitsValue(SubSeq(cell, 6, 7))
             d == DigitsValue(SubSeq(cell, 9, 10))
         IN IF y >= 1 /\ m \in 1..12 /\ d \in 1..DaysInMonth(y, m)
            THEN <<y>> ELSE Missing
    ELSE Missing

\* pd.to_numeric(cell, errors='coerce') for whole numbers: NaN for an empty
\* cell and for text that is no number.
to_numeric(cell) ==
    IF cell = <<>> THEN Missing
    ELSE IF IsDigits(cell) THEN <<DigitsValue(cell)>>
    ELSE IF Head(cell) = "-" /\ IsDigits(Tail(cell))
         THEN <<0 - DigitsValue(Tail(cell))>>
    ELSE Missing

\* df.dropna(subset=...): a row is dropped when any column of the subset is
\* missing.
dropna(df, subset) ==
    LET Keep(r) == \A c \in subset : ~isna(r, c) IN SelectSeq(df, Keep)

\* Lines 33-41.  After dropna no Year and no Best3BenchKg is missing, and
\* the columns hold plain numbers (Year cast to int on line 40).
load_data(csv) ==
    LET df0 == read_csv(csv)
        df1 == [i \in 1..Len(df0) |->
                   df0[i] @@ [Year |-> to_datetime_year(df0[i].Date)]]
        df2 == [i \in 1..Len(df1) |->
                   [df1[i] EXCEPT !.Best3BenchKg = to_numeric(@)]]
        df3 == dropna(df2, dropna_subset)
    IN  [i \in 1..Len(df3) |->
            [df3[i] EXCEPT !.Year = @[1], !.Best3BenchKg = @[1]]]

(***************************************************************************)
(* preprocess                                                              *)
(***************************************************************************)
\* The "All" option of the Year selectbox and an option that is a year.
\* Python compares the str "All" with an int year as unequal; the tag keeps
\* the two kinds of option apart.
AllYear == <<"All">>
YearOption(y) == <<"Year", y>>

eq_filter(df, col, v) ==
    LET Test(r) == r[col] = v IN SelectSeq(df, Test)

\* The filter without the test of line 51: "All" taken as an Event code.
filter_rows_EventAlways(df, sex, event, equipment, weight_class, year, country, tested_status) ==
    LET f1 == eq_filter(df, "Sex", sex)
        f2 == eq_filter(f1, "Event", event)
        f3 == IF equipment # "All"
              THEN eq_filter(f2, "Equipment", equipment) ELSE f2
        f4 == IF weight_class # "All"
              THEN eq_filter(f3, "WeightClassKg", weight_class) ELSE f3
        f5 == IF year # AllYear THEN eq_filter(f4, "Year", year[2]) ELSE f4
        f6 == IF country # "All"
              THEN eq_filter(f5, "Country", country) ELSE f5
        f7 == IF tested_status # "All"
              THEN eq_filter(f6, "Tested", tested_status) ELSE f6
    IN  f7

\* The filter with line 64 applied to df instead of df_filtered.
filter_rows_CountryOfDf(df, sex, event, equipment, weight_class, year, country, tested_status) ==
    LET f1 == eq_filter(df, "Sex", sex)
        f2 == IF event # "All" THEN eq_filter(f1, "Event", event) ELSE f1
        f3 == IF equipment # "All"
              THEN eq_filter(f2, "Equipment", equipment) ELSE f2
        f4 == IF weight_class # "All"
              THEN eq_filter(f3, "WeightClassKg", weight_class) ELSE f3
        f5 == IF year # AllYear THEN eq_filter(f4, "Year", year[2]) ELSE f4
        f6 == IF country # "All"
              THEN eq_filter(df, "Country", country) ELSE f5
        f7 == IF tested_status # "All"
              THEN eq_filter(f6, "Tested", tested_status) ELSE f6
    IN  f7

\* Lines 46-68: Sex always, every other criterion unless it is "All".
filter_rows(df, sex, event, equipment, weight_class, year, country, tested_status) ==
    LET f1 == eq_filter(df, "Sex", sex)
        f2 == IF event # "All" THEN eq_filter(f1, "Event", event) ELSE f1
        f3 == IF equipment # "All"
              THEN eq_filter(f2, "Equipment", equipment) ELSE f2
        f4 == IF weight_class # "All"
              THEN eq_filter(f3, "WeightClassKg", weight_class) ELSE f3
        f5 == IF year # AllYear THEN eq_filter(f4, "Year", year[2]) ELSE f4
        f6 == IF country # "All"
              THEN eq_filter(f5, "Country", country) ELSE f5
        f7 == IF tested_status # "All"
              THEN eq_filter(f6, "Tested", tested_status) ELSE f6
    IN  f7

Max(S) == CHOOSE x \in S : \A y \in S : y <= x

Min(S) == CHOOSE x \in S : \A y \in S : x <= y

\* The grouping with min() for max().
groupby_min(rows) ==
    LET keys == {rows[i].Name : i \in 1..Len(rows)} \ {NaN}
        best(n) == Min({rows[i].Best3BenchKg :
                            i \in {j \in 1..Len(rows) : rows[j].Name = n}})
    IN  {[Name |-> n, Best3BenchKg |-> best(n)] : n \in keys}

\* Line 73: groupby('Name', as_index=False)['Best3BenchKg'].max().  One
\* record per group key; groupby leaves out the rows whose key is NaN.
groupby_max(rows) ==
    LET keys == {rows[i].Name : i \in 1..Len(rows)} \ {NaN}
        best(n) == Max({rows[i].Best3BenchKg :
                            i \in {j \in 1..Len(rows) : rows[j].Name = n}})
    IN  {[Name |-> n, Best3BenchKg |-> best(n)] : n \in keys}

\* The sort with ascending=False.
sort_values_Descending(groups) ==
    LET n == Cardinality(groups)
    IN  {t \in [1..n -> groups] :
            /\ \A i, j \in 1..n : t[i] = t[j] => i = j
            /\ \A i, j \in 1..n : i < j =>
                   t[i].Best3BenchKg >= t[j].Best3BenchKg}

\* Line 74: sort_values(by='Best3BenchKg').reset_index(drop=True).  The
\* default sort is not stable, so the order of equal values is any order:
\* the set of the tables the call may return.
sort_values(groups) ==
    LET n == Cardinality(groups)
    IN  {t \in [1..n -> groups] :
            /\ \A i, j \in 1..n : t[i] = t[j] => i = j
            /\ \A i, j \in 1..n : i < j =>
                   t[i].Best3BenchKg <= t[j].Best3BenchKg}

\* Lines 45-76: the set of the tables preprocess may return.
preprocess(df, sex, event, equipment, weight_class, year, country, tested_status) ==
    LET rows == filter_rows(df, sex, event, equipment, weight_class, year,
                            country, tested_status)
    IN  IF rows = <<>> THEN {<<>>}
        ELSE sort_values(groupby_max(rows))

(***************************************************************************)
(* main                                                                    *)
(***************************************************************************)
TRADITIONAL_MEN_CLASSES ==
    <<"All", "52", "56", "60", "67.5", "75", "82.5", "90", "100", "110",
      "125", "140", "140+">>

TRADITIONAL_WOMEN_CLASSES ==
    <<"All", "44", "48", "52", "56", "60", "67.5", "75", "82.5", "90", "90+">>

\* The map with the labels of SBD and B exchanged.
EVENT_DISPLAY_MAP_Exchanged ==
    [All |-> "All", SBD |-> "Bench Only", B |-> "Full Power",
     BD |-> "Push-Pull", SB |-> "Squat & Bench"]

\* Lines 99-105.
EVENT_DISPLAY_MAP ==
    [All |-> "All", SBD |-> "Full Power", B |-> "Bench Only",
     BD |-> "Push-Pull", SB |-> "Squat & Bench"]

\* Line 106.
event_codes == <<"All", "SBD", "B", "BD", "SB">>

\* Line 123.
equipment_options == <<"All", "Raw", "Wraps", "Single-ply", "Multi-ply">>

\* Line 149.
tested_options == <<"All", "Yes", "No">>

Range(s) == {s[i] : i \in 1..Len(s)}

\* Line 108, as the set of the list's entries.
country_list(df) == {"All"} \cup ({df[i].Country : i \in 1..Len(df)} \ {NaN})

\* Line 109, as the set of the list's entries.
year_list(df) == {AllYear} \cup {YearOption(df[i].Year) : i \in 1..Len(df)}

\* Lines 126-129.
weight_class_list(sex) ==
    IF sex = "M" THEN TRADITIONAL_MEN_CLASSES ELSE TRADITIONAL_WOMEN_CLASSES

\* The count with < for <=.
rank_of_Below(table, v) ==
    LET Below(r) == r.Best3BenchKg < v IN Len(SelectSeq(table, Below))

\* The count with >= for <=.
rank_of_AtOrAbove(table, v) ==
    LET AtOrAbove(r) == r.Best3BenchKg >= v IN Len(SelectSeq(table, AtOrAbove))

\* Line 161.
rank_of(table, v) ==
    LET AtOrBelow(r) == r.Best3BenchKg <= v IN Len(SelectSeq(table, AtOrBelow))

\* Line 162.
total_lifters_of(table) == Len(table)

\* Line 163: (rank / total_lifters) * 100 if total_lifters > 0 else 0.
percentile_of(rank, total_lifters) ==
    IF total_lifters > 0 THEN [num |-> rank * 100, den |-> total_lifters]
    ELSE [num |-> 0, den |-> 1]

\* Lines 161-163.
calculate(table, v) ==
    LET rank == rank_of(table, v)
        total_lifters == total_lifters_of(table)
    IN  [rank |-> rank, total_lifters |-> total_lifters,
         percentile |-> percentile_of(rank, total_lifters)]

\* The display without the test of line 160.
results_NoEmptyTest(table, v) ==
    IF v > 0
    THEN [calc |-> <<calculate(table, v)>>,
          out |-> [kind |-> "percentile"] @@ calculate(table, v)]
    ELSE [calc |-> <<>>, out |-> [kind |-> "none"]]

\* Lines 159-169: what the run evaluates and what the page shows.
results(table, v) ==
    IF v > 0
    THEN IF table # <<>>
         THEN [calc |-> <<calculate(table, v)>>,
               out |-> [kind |-> "percentile"] @@ calculate(table, v)]
         ELSE [calc |-> <<>>, out |-> [kind |-> "warning"]]
    ELSE [calc |-> <<>>, out |-> [kind |-> "none"]]

\* Lines 88-169: one run of the script with widget values s and input v.
\* load_data() is computed on the first run and taken from the cache
\* afterwards (lines 11-15, 88).
main(s, v) ==
    LET df == IF cache = <<>> THEN load_data(raw) ELSE cache[1]
    IN  \E table \in preprocess(df, s.sex, s.event, s.equipment, s.weight_class, s.year, s.country, s.tested_status) :
          /\ cache' = <<df>>
          /\ sel' = s
          /\ bench_input' = v
          /\ df_filtered' = filter_rows(df, s.sex, s.event, s.equipment, s.weight_class, s.year, s.country, s.tested_status)
          /\ filtered_df' = table
          /\ calc' = results(table, v).calc
          /\ out' = results(table, v).out
          /\ UNCHANGED raw

\* Lines 132-135: 'USA' preselected when it is a country of the data.
default_country(df) == IF "USA" \in country_list(df) THEN "USA" ELSE "All"

\* The first run of a session: every widget at its default (a selectbox at
\* its first option, Country at its index, the number box at min_value).
page_load ==
    /\ sel = <<>>
    /\ LET df == IF cache = <<>> THEN load_data(raw) ELSE cache[1]
       IN  main([sex |-> "M", event_label |-> EVENT_DISPLAY_MAP[event_codes[1]],
                 event |-> event_codes[1], equipment |-> equipment_options[1],
                 weight_class |-> weight_class_list("M")[1], year |-> AllYear,
                 country |-> default_country(df),
                 tested_status |-> tested_options[1]], 0)

\* The user picks another Sex (line 114); the script runs again.  The
\* Weight Class selectbox gets the list of that sex (lines 126-129, 140)
\* and either keeps its value, when the list has it, or falls back to its
\* first option.
select_sex ==
    /\ sel # <<>>
    /\ \E sex \in {"M", "F"} \ {sel.sex} :
         \E wc \in {weight_class_list(sex)[1]} \cup ({sel.weight_class} \cap Range(weight_class_list(sex))) :
            main([sel EXCEPT !.sex = sex, !.weight_class = wc], bench_input)

\* The user picks another Event by its label (lines 117-121): the selectbox
\* hands back an option that is shown under the label picked.
select_event(Labels) ==
    /\ sel # <<>>
    /\ \E label \in ({EVENT_DISPLAY_MAP[c] : c \in Range(event_codes)} \cap Labels) \ {sel.event_label} :
         \E code \in {c \in Range(event_codes) : EVENT_DISPLAY_MAP[c] = label} :
            main([sel EXCEPT !.event_label = label, !.event = code], bench_input)

\* Line 123.
select_equipment(Options) ==
    /\ sel # <<>>
    /\ \E e \in (Range(equipment_options) \cap Options) \ {sel.equipment} :
         main([sel EXCEPT !.equipment = e], bench_input)

\* Line 140.
select_weight_class(Options) ==
    /\ sel # <<>>
    /\ \E w \in (Range(weight_class_list(sel.sex)) \cap Options) \ {sel.weight_class} :
         main([sel EXCEPT !.weight_class = w], bench_input)

\* Line 142.
select_year(Options) ==
    /\ sel # <<>>
    /\ \E y \in (year_list(cache[1]) \cap Options) \ {sel.year} :
         main([sel EXCEPT !.year = y], bench_input)

\* Line 144.
select_country(Options) ==
    /\ sel # <<>>
    /\ \E c \in (country_list(cache[1]) \cap Options) \ {sel.country} :
         main([sel EXCEPT !.country = c], bench_input)

\* Line 149.
select_tested(Options) ==
    /\ sel # <<>>
    /\ \E t \in (Range(tested_options) \cap Options) \ {sel.tested_status} :
         main([sel EXCEPT !.tested_status = t], bench_input)

\* Line 156: the number box takes a value >= 0.
enter_bench(Values) ==
    /\ sel # <<>>
    /\ \E v \in {x \in Values : x >= 0} \ {bench_input} :
         main(sel, v)

\* Lines 161-163 on their own: the percentile calculation applied to the
\* table of the last run for an input value >= 0.
percentile(Values) ==
    /\ sel # <<>>
    /\ \E v \in {x \in Values : x >= 0} :
          /\ bench_input' = v
          /\ calc' = <<calculate(filtered_df, v)>>
    /\ UNCHANGED <<raw, cache, sel, df_filtered, filtered_df, out>>

(***************************************************************************)
(* The inputs explored: CSV lines and widget values.                       *)
(***************************************************************************)
\* The files of 1 to n lines drawn from S.
SeqsUpTo(S, n) == UNION {[1..k -> S] : k \in 1..n}

\* Cell texts.
T100 == <<"1", "0", "0">>
T110 == <<"1", "1", "0">>
T120 == <<"1", "2", "0">>
TNeg == <<"-", "5">>
TDQ == <<"D", "Q">>
D2020 == <<"2", "0", "2", "0", "-", "0", "3", "-", "1", "5">>
D2019 == <<"2", "0", "1", "9", "-", "1", "1", "-", "3", "0">>
DFeb30 == <<"2", "0", "2", "0", "-", "0", "2", "-", "3", "0">>
DText == <<"n", "/", "a">>

BaseLine ==
    [Name |-> "A", Sex |-> "M", Event |-> "SBD", Equipment |-> "Raw",
     Country |-> "USA", Date |-> D2020, WeightClassKg |-> "90",
     Best3BenchKg |-> T100, Tested |-> "Yes"]

\* Input values for the number box.
BenchValues == {0, 100, 115, 120}

\* Lines of lifters: names (one missing), both sexes, three lifts.
LifterLines ==
    {[BaseLine EXCEPT !.Name = n, !.Sex = s, !.Best3BenchKg = b] :
        n \in {"A", "B"}, s \in {"M", "F"}, b \in {T100, T110, T120}}
    \cup {[BaseLine EXCEPT !.Name = "", !.Best3BenchKg = T110]}

\* Lines that differ from BaseLine in one column, in what the cleaning
\* looks at and in what it does not.
DirtyLines ==
    {BaseLine}
    \cup {[BaseLine EXCEPT ![c] = ""] :
            c \in required_cols \ TextCols}
    \cup {[BaseLine EXCEPT !.Best3BenchKg = b] : b \in {<<>>, TDQ, TNeg}}
    \cup {[BaseLine EXCEPT !.Date = d] : d \in {<<>>, DText, DFeb30, D2019}}

\* Single lines with every combination of good and bad cells in the
\* columns the cleaning looks at.
MixedLines ==
    {[BaseLine EXCEPT !.Best3BenchKg = b, !.Date = d, !.Country = c,
                      !.WeightClassKg = w, !.Event = e, !.Tested = t] :
        b \in {T100, TDQ, <<>>}, d \in {D2020, DFeb30, <<>>},
        c \in {"USA", ""}, w \in {"90", ""}, e \in {"SBD", ""},
        t \in {"Yes", ""}}

\* Lines that differ from BaseLine in one of the filtered columns, for two
\* lifters.
CategoryLines ==
    {[BaseLine EXCEPT !.Name = "B", !.Best3BenchKg = T120]}
    \cup
    {[l EXCEPT !.Name = n] :
        n \in {"A"},
        l \in {BaseLine,
               [BaseLine EXCEPT !.Sex = "F"],
               [BaseLine EXCEPT !.Event = "B"],
               [BaseLine EXCEPT !.Equipment = "Wraps"],
               [BaseLine EXCEPT !.WeightClassKg = "90+"],
               [BaseLine EXCEPT !.Date = D2019],
               [BaseLine EXCEPT !.Country = "Canada"],
               [BaseLine EXCEPT !.Tested = "No"]}}

Start(lines) ==
    /\ raw \in lines
    /\ cache = <<>>
    /\ sel = <<>>
    /\ bench_input = 0
    /\ df_filtered = <<>>
    /\ filtered_df = <<>>
    /\ calc = <<>>
    /\ out = [kind |-> "none"]

(***************************************************************************)
(* Specifications.                                                         *)
(***************************************************************************)
Init == Start(SeqsUpTo(LifterLines, MaxRows))

Next ==
    \/ page_load
    \/ select_sex
    \/ enter_bench(BenchValues)

Spec == Init /\ [][Next]_vars

NextPercentile ==
    \/ page_load
    \/ select_sex
    \/ percentile(BenchValues)

SpecPercentile == Init /\ [][NextPercentile]_vars

InitLoad ==
    Start(SeqsUpTo(DirtyLines, MaxLoadRows) \cup {<<l>> : l \in MixedLines})

NextLoad ==
    \/ page_load
    \/ select_sex

SpecLoad == InitLoad /\ [][NextLoad]_vars

InitFilter == Start(SeqsUpTo(CategoryLines, MaxFilterRows))

NextFilter ==
    \/ page_load
    \/ select_sex
    \/ select_event({"All", "Full Power", "Bench Only", "Push-Pull", "Squat & Bench"})
    \/ select_equipment({"All", "Raw"})
    \/ select_weight_class({"All", "90"})
    \/ select_year({AllYear, YearOption(2020)})
    \/ select_country({"All", "USA"})
    \/ select_tested({"All", "Yes"})

SpecFilter == InitFilter /\ [][NextFilter]_vars

(***************************************************************************)
(* Properties.                                                             *)
(***************************************************************************)
Names(table) == {table[i].Name : i \in 1..Len(table)} \ {NaN}

\* p <= q for fractions with positive denominators.
FracLeq(p, q) == p.num * q.den <= q.num * p.den

\* C1: the table preprocess returns is sorted ascending by Best3BenchKg and
\* no Name occurs in it twice.
C1_SortedUniqueNames ==
    \A i, j \in 1..Len(filtered_df) :
        i < j => /\ filtered_df[i].Best3BenchKg <= filtered_df[j].Best3BenchKg
                 /\ filtered_df[i].Name # filtered_df[j].Name

\* Three rows survive, two of one lifter, and the table has the two lifters
\* with different bests.
C1_Witness ==
    /\ Len(df_filtered) = 3
    /\ Len(filtered_df) = 2
    /\ filtered_df[1].Best3BenchKg < filtered_df[2].Best3BenchKg

\* C2: when rows survive the filter, the table has exactly one entry for
\* each Name among the surviving rows (a row whose Name is missing has no
\* Name) and no other, and the entry's value is the greatest Best3BenchKg
\* of that Name's surviving rows.
C2_OneEntryPerNameWithMax ==
    df_filtered # <<>> =>
        /\ Names(filtered_df) = Names(df_filtered)
        /\ Len(filtered_df) = Cardinality(Names(df_filtered))
        /\ \A i \in 1..Len(filtered_df) :
              /\ \E j \in 1..Len(df_filtered) :
                    /\ df_filtered[j].Name = filtered_df[i].Name
                    /\ df_filtered[j].Best3BenchKg = filtered_df[i].Best3BenchKg
              /\ \A j \in 1..Len(df_filtered) :
                    df_filtered[j].Name = filtered_df[i].Name =>
                        df_filtered[j].Best3BenchKg <= filtered_df[i].Best3BenchKg

\* The example: (A,100), (A,120), (B,110) survive and the table is
\* [(B,110), (A,120)].
C2_Witness ==
    /\ Len(df_filtered) = 3
    /\ {<<df_filtered[i].Name, df_filtered[i].Best3BenchKg>> : i \in 1..Len(df_filtered)}
          = {<<"A", 100>>, <<"A", 120>>, <<"B", 110>>}
    /\ filtered_df = <<[Name |-> "B", Best3BenchKg |-> 110],
                       [Name |-> "A", Best3BenchKg |-> 120]>>

\* C3: rank is the number of lifters of the table whose best is <= the
\* input value, total is the number of lifters, percentile is
\* 100*rank/total when total > 0 and 0 when total = 0; so rank <= total and
\* 0 <= percentile <= 100.
C3_RankTotalPercentile ==
    calc # <<>> =>
        LET c == calc[1] IN
        /\ c.rank = Cardinality({i \in 1..Len(filtered_df) :
                                    filtered_df[i].Best3BenchKg <= bench_input})
        /\ c.total_lifters = Len(filtered_df)
        /\ c.percentile.den > 0
        /\ c.total_lifters > 0 =>
              c.percentile.num * c.total_lifters = 100 * c.rank * c.percentile.den
        /\ c.total_lifters = 0 => c.percentile.num = 0
        /\ c.rank <= c.total_lifters
        /\ 0 <= c.percentile.num
        /\ c.percentile.num <= 100 * c.percentile.den

\* The input equals a lifter's best, which counts, and another lifter is
\* above it.
C3_Witness ==
    /\ calc # <<>>
    /\ \E i \in 1..Len(filtered_df) : filtered_df[i].Best3BenchKg = bench_input
    /\ calc[1].rank >= 1
    /\ calc[1].rank < calc[1].total_lifters

\* C4: for a fixed table, rank and percentile do not decrease when the
\* input value grows.
C4_Monotone ==
    [][(/\ calc # <<>>
        /\ calc' # <<>>
        /\ filtered_df' = filtered_df
        /\ bench_input <= bench_input')
          => /\ calc[1].rank <= calc'[1].rank
             /\ FracLeq(calc[1].percentile, calc'[1].percentile)]_vars

\* The calculation for an input between two lifters' bests.
C4_Witness ==
    /\ calc # <<>>
    /\ bench_input = 115
    /\ calc[1].rank = 1
    /\ calc[1].total_lifters = 2

\* C5: the Names preprocess returns with every criterion but Sex at "All"
\* include the Names it returns for any criteria with the same Sex.
C5_AllIsSuperset ==
    sel # <<>> =>
        \A t \in preprocess(cache[1], sel.sex, "All", "All", "All", AllYear, "All", "All") :
            Names(filtered_df) \subseteq Names(t)

\* Criteria stricter than "All" that leave some lifters and remove others.
C5_Witness ==
    /\ sel # <<>>
    /\ sel.event # "All"
    /\ sel.country # "All"
    /\ filtered_df # <<>>
    /\ \E t \in preprocess(cache[1], sel.sex, "All", "All", "All", AllYear, "All", "All") :
          Names(filtered_df) # Names(t)

\* C6 as claimed: whenever the criteria match no row, the page shows the
\* "no data" state.
C6_NoDataAlwaysShown ==
    (sel # <<>> /\ df_filtered = <<>>) => out.kind = "warning"

\* C6 as amended: whenever the criteria match no row the page shows no
\* percentile, rank or total, and it shows the "no data" state when the
\* value entered is > 0; for the value 0 it shows neither.
C6_NoDataWhenValueEntered ==
    (sel # <<>> /\ df_filtered = <<>>) =>
        /\ out.kind # "percentile"
        /\ DOMAIN out = {"kind"}
        /\ calc = <<>>
        /\ bench_input > 0 => out.kind = "warning"
        /\ bench_input = 0 => out.kind = "none"

\* The data has rows, none of the selected sex, and a value was entered.
C6_Witness ==
    /\ sel # <<>>
    /\ cache[1] # <<>>
    /\ df_filtered = <<>>
    /\ bench_input > 0
    /\ out.kind = "warning"

\* What cleaning makes of a CSV line whose cells are all good, written out
\* for the cell texts of the lines explored.
GoodLine(l) ==
    /\ l.Best3BenchKg \in {T100, T110, T120, TNeg}
    /\ l.Date \in {D2020, D2019}
    /\ l.Country # ""
    /\ l.WeightClassKg # ""
    /\ l.Event # ""
    /\ l.Tested # ""

CleanedLine(l) ==
    [Name |-> IF l.Name = "" THEN NaN ELSE l.Name,
     Sex |-> IF l.Sex = "" THEN NaN ELSE l.Sex,
     Equipment |-> IF l.Equipment = "" THEN NaN ELSE l.Equipment,
     Event |-> l.Event, Country |-> l.Country,
     WeightClassKg |-> l.WeightClassKg, Tested |-> l.Tested,
     Date |-> l.Date,
     Year |-> IF l.Date = D2020 THEN 2020 ELSE 2019,
     Best3BenchKg |-> CASE l.Best3BenchKg = T100 -> 100
                        [] l.Best3BenchKg = T110 -> 110
                        [] l.Best3BenchKg = T120 -> 120
                        [] l.Best3BenchKg = TNeg -> 0 - 5]

\* C7: every row of the cleaned dataset has a number for Best3BenchKg, an
\* integer Year that is the year of its Date, and a Country, WeightClassKg,
\* Event and Tested that are not missing; a line with a Best3BenchKg that is
\* no number, a Date that is no date or one of these cells empty is not in
\* it; and every line that has them all is in it, in the order of the file.
C7_CleanedDataset ==
    cache # <<>> =>
        LET df == cache[1]
            good == SelectSeq(raw, GoodLine)
        IN  /\ \A i \in 1..Len(df) :
                  /\ df[i].Best3BenchKg \in Int
                  /\ df[i].Year \in Int
                  /\ df[i].Country # NaN
                  /\ df[i].WeightClassKg # NaN
                  /\ df[i].Event # NaN
                  /\ df[i].Tested # NaN
            /\ Len(df) = Len(good)
            /\ \A i \in 1..Len(df) : df[i] = CleanedLine(good[i])

\* A file with a line whose Best3BenchKg is "DQ", a line with no Tested
\* and a good line: the cleaned dataset is the good line.
C7_Witness ==
    /\ cache # <<>>
    /\ Len(raw) = 3
    /\ \E i \in 1..3 : raw[i].Best3BenchKg = TDQ
    /\ \E i \in 1..3 : raw[i].Tested = ""
    /\ Len(cache[1]) = 1

\* Whether row r meets the criteria s.
Matches(r, s) ==
    /\ r.Sex = s.sex
    /\ s.event = "All" \/ r.Event = s.event
    /\ s.equipment = "All" \/ r.Equipment = s.equipment
    /\ s.weight_class = "All" \/ r.WeightClassKg = s.weight_class
    /\ s.year = AllYear \/ s.year = YearOption(r.Year)
    /\ s.country = "All" \/ r.Country = s.country
    /\ s.tested_status = "All" \/ r.Tested = s.tested_status

\* C9: a row of the cleaned dataset survives the filter exactly when its
\* Sex is the criterion's and, for each of Event, Equipment, WeightClassKg,
\* Year, Country and Tested, the criterion is "All" or equals the row's
\* field; the surviving rows keep the order of the dataset.
C9_SurvivesIffMatches ==
    sel # <<>> =>
        LET Test(r) == Matches(r, sel) IN df_filtered = SelectSeq(cache[1], Test)

\* Event and Country are constrained; one of two rows survives.
C9_Witness ==
    /\ sel # <<>>
    /\ sel.event # "All"
    /\ sel.country # "All"
    /\ sel.tested_status # "All"
    /\ Len(cache[1]) = 2
    /\ Len(df_filtered) = 1

\* The code the claim gives for each display option.
ClaimedCode(label) ==
    CASE label = "All" -> "All"
      [] label = "Full Power" -> "SBD"
      [] label = "Bench Only" -> "B"
      [] label = "Push-Pull" -> "BD"
      [] label = "Squat & Bench" -> "SB"

\* C10: each display option of Event is the label of exactly one code (Full
\* Power of SBD, Bench Only of B, Push-Pull of BD, Squat & Bench of SB);
\* the value handed to preprocess for the option picked is that code, so
\* the surviving rows have that Event; and for "All" the rows are not
\* filtered by Event.
C10_EventLabelToCode ==
    /\ \A label \in {"All", "Full Power", "Bench Only", "Push-Pull", "Squat & Bench"} :
          {c \in Range(event_codes) : EVENT_DISPLAY_MAP[c] = label} = {ClaimedCode(label)}
    /\ sel # <<>> =>
          /\ sel.event = ClaimedCode(sel.event_label)
          /\ sel.event_label # "All" =>
                \A i \in 1..Len(df_filtered) :
                    df_filtered[i].Event = ClaimedCode(sel.event_label)
          /\ LET Test(r) == Matches(r, [sel EXCEPT !.event = r.Event])
             IN  /\ sel.event_label = "All" => df_filtered = SelectSeq(cache[1], Test)
                 /\ sel.event_label # "All" =>
                       \A i \in 1..Len(cache[1]) :
                           (Test(cache[1][i]) /\ cache[1][i].Event = ClaimedCode(sel.event_label))
                               => \E j \in 1..Len(df_filtered) : df_filtered[j] = cache[1][i]

\* Bench Only is picked: the Full Power row is removed, the Bench Only row
\* survives.
C10_Witness ==
    /\ sel # <<>>
    /\ sel.event_label = "Bench Only"
    /\ Len(cache[1]) = 2
    /\ Len(df_filtered) = 1
    /\ df_filtered[1].Event = "B"

====
